---- MODULE Spec2Model ----
(***************************************************************************)
(* A model of stock_market_analysis.py: the daily fetch / persist / window *)
(* / render / classify pipeline.                                           *)
(*                                                                         *)
(* Conventions of the model                                                *)
(*  - The clock is an integer count of ticks; a calendar day has           *)
(*    TicksPerDay ticks and tick 0 of a day is exactly midnight.           *)
(*    strftime('%Y-%m-%d') is FormatDate, pd.to_datetime of such a string  *)
(*    is ToDatetime (midnight of that day).                                *)
(*  - A file "market_activity_<day>.csv" is named by its day number.       *)
(*  - A raw value is a float, a percent string ("73%"), a string that is   *)
(*    no number ("abc") or an empty cell; for these the text that to_csv   *)
(*    writes is the text read_csv returns, so a file holds the raw value.  *)
(*  - A number after normalisation is [nan, n]; the ratio rise_ratio is    *)
(*    kept in hundredths (round(x, 2) * 100).                              *)
(*  - Lines 155-158, 167 and 172 of the source stop at                    *)
(*    "float(<series>.iloc": the index that followed is missing, and the   *)
(*    file as it stands does not compile.  The model is of the file with   *)
(*    these six lines completed by an index into the non-empty series.     *)
(*    The index is not in the source and the specification only speaks of  *)
(*    "the" value of an item, so Readings and iloc are not a translation of *)
(*    code: each application of the classifier takes one of the Readings   *)
(*    (.iloc[0] or .iloc[-1]) and a property of the classifier has to hold *)
(*    under both.                                                          *)
(*  - out holds one token per message a run of main prints.                *)
(***************************************************************************)
EXTENDS Integers, Sequences, FiniteSets, TLC

VARIABLES
    now,        \* the wall clock (datetime.now()), in ticks
    files,      \* the working directory: file name -> file state
    writes,     \* number of file modifications so far (orders the mtimes)
    pc,         \* main's position
    df,         \* main: the fetched table (None or a sequence of rows; stamped by the save)
    recent_df,  \* main: the result of load_recent_data
    analysis,   \* main: the result of analyze_market_sentiment
    out,        \* main: what this run printed, in order
    image,      \* number of times the trend image has been written
    runs,       \* number of runs of main started
    prev,       \* the working directory and image count when the run started
    c_df,       \* classifier specification: the window handed to the classifier
    c_res,      \* classifier specification: its result
    c_pc,       \* classifier specification: position
    w_files,    \* window specification: the working directory
    w_now,      \* window specification: the clock
    w_days,     \* window specification: the days argument
    w_res,      \* window specification: the result of load_recent_data
    w_pc,       \* window specification: position
    a_A,        \* append specification: batch A
    a_B,        \* append specification: batch B
    a_pre,      \* append specification: the rows of the target before any call
    a_seq,      \* append specification: the directory that gets A, then B
    a_one,      \* append specification: the directory that gets A+B in one call
    a_now,      \* append specification: the clock
    a_pc        \* append specification: position of the two sides

pvars == <<now, files, writes, pc, df, recent_df, analysis, out, image, runs, prev>>
cvars == <<c_df, c_res, c_pc>>
wvars == <<w_files, w_now, w_days, w_res, w_pc>>
avars == <<a_A, a_B, a_pre, a_seq, a_one, a_now, a_pc>>
vars == <<pvars, cvars, wvars, avars>>

----------------------------------------------------------------------------
(* Bounds of the model *)

TicksPerDay == 2
MaxDay == 1
MaxRuns == 2
MaxBatch == 2

(* Program constants *)

MainDays == 60
StrongRise == 60
StrongLimitUp == 50
MildRise == 50
MildLimitUp == 30
WeakRise == 40
WeakLimitUp == 20
RoundDigits == 2

----------------------------------------------------------------------------
(* Helpers of the model *)

Min(a, b) == IF a <= b THEN a ELSE b

RECURSIVE Pow10(_)
Pow10(k) == IF k = 0 THEN 1 ELSE 10 * Pow10(k - 1)

RECURSIVE SeqMax(_)
SeqMax(s) ==
    IF Len(s) = 1 THEN s[1]
    ELSE LET m == SeqMax(Tail(s)) IN IF s[1] >= m THEN s[1] ELSE m

IsPrefix(s, t) == Len(s) <= Len(t) /\ SubSeq(t, 1, Len(s)) = s

----------------------------------------------------------------------------
(* Values *)

Num(n) == [kind |-> "num", n |-> n]
Pct(n) == [kind |-> "pct", n |-> n]
Bad == [kind |-> "bad", n |-> 0]
Empty == [kind |-> "nan", n |-> 0]

(* a float held in an analysis result *)
F(n) == [nan |-> FALSE, n |-> n]
NaN == [nan |-> TRUE, n |-> 0]

None == [none |-> TRUE, rows |-> <<>>]
Frame(rows) == [none |-> FALSE, rows |-> rows]

(* astype(str).str.replace('%', '') followed by pd.to_numeric(errors='coerce') *)
to_numeric(v) ==
    IF v.kind \in {"num", "pct"} THEN Num(v.n) ELSE Empty

(* astype(str).str.replace('%', '').astype(float): raises on a string that is
   no number; the string "nan" of an empty cell parses to NaN *)
astype_float_raises(v) == v.kind = "bad"

astype_float(v) ==
    IF v.kind \in {"num", "pct"} THEN F(v.n) ELSE NaN

(* float arithmetic and comparison with NaN *)
Add(a, b) == IF a.nan \/ b.nan THEN NaN ELSE F(a.n + b.n)
GT(a, k) == ~a.nan /\ a.n > k
LT(a, k) == ~a.nan /\ a.n < k

(* Binary floating point.  rise / total * 100 is computed in IEEE doubles:
   the quotient is rounded to 53 bits, the product by 100 is rounded to 53
   bits again, and round(x, 2) rounds the exact value of that double to the
   nearest hundredth (ties to even).  The integers involved exceed the
   range of a machine word, so they are kept as sequences of decimal limbs,
   least significant first, without leading zero limbs. *)
Limb == Pow10(4)
Mantissa == 53

RECURSIVE BFromInt(_)
BFromInt(n) == IF n = 0 THEN <<>> ELSE <<n % Limb>> \o BFromInt(n \div Limb)

RECURSIVE BToInt(_)
BToInt(a) == IF a = <<>> THEN 0 ELSE a[1] + Limb * BToInt(Tail(a))

RECURSIVE BMulCarry(_, _, _)
BMulCarry(a, k, c) ==
    IF a = <<>> THEN BFromInt(c)
    ELSE LET v == a[1] * k + c
         IN  <<v % Limb>> \o BMulCarry(Tail(a), k, v \div Limb)

(* a * k for a small k *)
BMul(a, k) == IF k = 0 THEN <<>> ELSE BMulCarry(a, k, 0)

RECURSIVE BInc(_)
BInc(a) ==
    IF a = <<>> THEN <<1>>
    ELSE IF a[1] + 1 < Limb THEN <<a[1] + 1>> \o Tail(a)
    ELSE <<0>> \o BInc(Tail(a))

(* quotient and remainder of a by a small k *)
RECURSIVE BDiv(_, _)
BDiv(a, k) ==
    IF a = <<>> THEN [q |-> <<>>, r |-> 0]
    ELSE LET hi == BDiv(Tail(a), k)
             cur == hi.r * Limb + a[1]
         IN  [q |-> IF hi.q = <<>> /\ cur \div k = 0 THEN <<>>
                    ELSE <<cur \div k>> \o hi.q,
              r |-> cur % k]

RECURSIVE BCmp(_, _)
BCmp(a, b) ==
    IF Len(a) # Len(b) THEN (IF Len(a) < Len(b) THEN -1 ELSE 1)
    ELSE IF a = <<>> THEN 0
    ELSE LET c == BCmp(Tail(a), Tail(b))
         IN  IF c # 0 THEN c
             ELSE IF a[1] < b[1] THEN -1 ELSE IF a[1] > b[1] THEN 1 ELSE 0

RECURSIVE Pow2(_)
Pow2(k) == IF k = 0 THEN 1 ELSE 2 * Pow2(k - 1)

(* the widest shift whose factor still multiplies a limb within a word *)
Chunk == 13

(* a * 2^k *)
RECURSIVE BShl(_, _)
BShl(a, k) ==
    IF k <= Chunk THEN BMul(a, Pow2(k)) ELSE BShl(BMul(a, Pow2(Chunk)), k - Chunk)

BOdd(a) == a # <<>> /\ a[1] % 2 = 1

(* q rounded to nearest, ties to even, given the remainder r of a division by k *)
BRound(q, r, k) ==
    IF 2 * r > k \/ (2 * r = k /\ BOdd(q)) THEN BInc(q) ELSE q

(* a scaled up until a >= lo: the scaled number and the number of doublings *)
RECURSIVE BScaleUp(_, _, _)
BScaleUp(a, lo, e) ==
    IF BCmp(a, lo) >= 0 THEN [n |-> a, e |-> e]
    ELSE IF BCmp(BShl(a, Chunk), lo) < 0 THEN BScaleUp(BShl(a, Chunk), lo, e + Chunk)
    ELSE BScaleUp(BMul(a, 2), lo, e + 1)

(* the double nearest num / den, as m / 2^e with a 53-bit m (0 < num, den) *)
FloatDiv(num, den) ==
    LET up == BScaleUp(BFromInt(num), BMul(BShl(<<1>>, Mantissa - 1), den), 0)
        d == BDiv(up.n, den)
    IN  [m |-> BRound(d.q, d.r, den), e |-> up.e]

(* the double nearest x * k for a small k > 1 *)
RECURSIVE FloatFit(_, _, _, _)
FloatFit(p, top, e, sticky) ==
    IF BCmp(p, top) < 0 THEN [p |-> p, e |-> e, sticky |-> sticky, half |-> FALSE]
    ELSE LET d == BDiv(p, 2)
         IN  IF BCmp(d.q, top) < 0
             THEN [p |-> d.q, e |-> e - 1, sticky |-> sticky, half |-> d.r = 1]
             ELSE FloatFit(d.q, top, e - 1, sticky \/ d.r = 1)

FloatMul(x, k) ==
    LET fit == FloatFit(BMul(x.m, k), BShl(<<1>>, Mantissa), x.e, FALSE)
    IN  [m |-> IF fit.half /\ (fit.sticky \/ BOdd(fit.p)) THEN BInc(fit.p) ELSE fit.p,
         e |-> fit.e]

(* a shifted right by k bits, with the bits shifted out remembered *)
RECURSIVE BShr(_, _, _)
BShr(a, k, sticky) ==
    IF k = 0 THEN [q |-> a, sticky |-> sticky]
    ELSE LET step == Min(k, Chunk)
             d == BDiv(a, Pow2(step))
         IN  BShr(d.q, k - step, sticky \/ d.r # 0)

(* round(x, digits) in units of 10^-digits: the exact value of the double,
   to the nearest, ties to even *)
FloatRound(x, digits) ==
    LET u == BMul(x.m, Pow10(digits))
    IN  IF x.e <= 0 THEN BToInt(BShl(u, 0 - x.e))
        ELSE LET s == BShr(u, x.e - 1, FALSE)
                 d == BDiv(s.q, 2)
             IN  BToInt(IF d.r = 1 /\ (s.sticky \/ BOdd(d.q)) THEN BInc(d.q) ELSE d.q)

(* round(num / den * 100, 2), in hundredths (line 162; 0 <= num, 0 < den) *)
RoundRatio(num, den) ==
    IF num = 0 THEN 0
    ELSE FloatRound(FloatMul(FloatDiv(num, den), 100), RoundDigits)

----------------------------------------------------------------------------
(* Clock and formatting *)

FormatDate(t) == t \div TicksPerDay
FormatTimestamp(t) == t
FileName(t) == FormatDate(t)
ToDatetime(d) == d * TicksPerDay
timedelta(days) == days * TicksPerDay

----------------------------------------------------------------------------
(* The working directory *)

NoFile == [exists |-> FALSE, readable |-> FALSE, rows |-> <<>>, mtime |-> 0]
NoName == -1

(* DataFrame.to_csv(filename): the file holds the rows, written now *)
to_csv(fs, name, rows, w) ==
    [fs EXCEPT ![name] = [exists |-> TRUE, readable |-> TRUE, rows |-> rows, mtime |-> w]]

concat_overwrite(existing_df, d) == d

concat_swapped(existing_df, d) == d \o existing_df

(* pd.concat([existing_df, df], ignore_index=True) *)
concat(existing_df, d) == existing_df \o d

(* df['timestamp'] = ...; df['date'] = ... *)
Stamp(d, ts, date) ==
    [i \in 1..Len(d) |->
        [item |-> d[i].item, value |-> d[i].value, timestamp |-> ts, date |-> date]]

(* save_to_csv(df, filename): n1, n2, n3 are the three readings of the clock
   (the file name, the timestamp, the date), w the modification stamp of the
   write.  raised: pd.read_csv of an existing target failed, nothing written.
   df: the caller's table after the call; lines 29-30 assign the two columns
   on the table that was passed in, before anything can raise. *)
save_to_csv(fs, d, filename, n1, n2, n3, w) ==
    LET name == IF filename = NoName THEN FileName(n1) ELSE filename
        stamped == Stamp(d, FormatTimestamp(n2), FormatDate(n3))
    IN  IF fs[name].exists
        THEN IF ~fs[name].readable
             THEN [raised |-> TRUE, fs |-> fs, filename |-> name, df |-> stamped]
             ELSE [raised |-> FALSE,
                   fs |-> to_csv(fs, name, concat(fs[name].rows, stamped), w),
                   filename |-> name, df |-> stamped]
        ELSE [raised |-> FALSE, fs |-> to_csv(fs, name, stamped, w), filename |-> name,
              df |-> stamped]

csv_files(fs) == {f \in DOMAIN fs : fs[f].exists}

(* max(csv_files, key=os.path.getmtime) *)
latest_file(fs) ==
    CHOOSE f \in csv_files(fs) : \A g \in csv_files(fs) : fs[g].mtime <= fs[f].mtime

(* the cleaning pass of load_recent_data: dates parsed, values made numeric *)
Cleaned(rows) ==
    [i \in 1..Len(rows) |->
        [item |-> rows[i].item, value |-> to_numeric(rows[i].value),
         timestamp |-> rows[i].timestamp, date |-> ToDatetime(rows[i].date)]]

InWindow_strict(r, cutoff_date) == r.date > cutoff_date

(* line 63: df['date'] >= cutoff_date *)
InWindow(r, cutoff_date) == r.date >= cutoff_date

(* lines 50-51, 66-67: reading the latest file fails and the failure is printed *)
load_fails(fs) == csv_files(fs) # {} /\ ~fs[latest_file(fs)].readable

(* load_recent_data(days), called when the clock reads t *)
load_recent_data(fs, t, days) ==
    IF csv_files(fs) = {} THEN None
    ELSE LET f == latest_file(fs)
         IN  IF load_fails(fs) THEN None
             ELSE LET cutoff_date == t - timedelta(days)
                  IN  Frame(SelectSeq(Cleaned(fs[f].rows),
                                      LAMBDA r : InWindow(r, cutoff_date)))

----------------------------------------------------------------------------
(* Rendering *)

ItemRows(rows, item) == SelectSeq(rows, LAMBDA r : r.item = item)

(* the dtype of the value column: float64 when every value is a float,
   object otherwise *)
NumericColumn(rows) == \A i \in 1..Len(rows) : rows[i].value.kind \in {"num", "nan"}

(* activity_data['value'].str: the accessor looks at the values of the
   activity rows only.  It raises AttributeError when they are floats: in a
   float64 column always, in an object column when no activity value is a
   string and one is a number (empty cells are skipped). *)
StrRaises(rows) ==
    LET activity_data == ItemRows(rows, "activity")
        kinds == {activity_data[i].value.kind : i \in 1..Len(activity_data)}
    IN  \/ NumericColumn(rows)
        \/ (kinds \cap {"pct", "bad"} = {} /\ "num" \in kinds)

(* line 85, activity_data['value'].str.rstrip('%').astype(float): .str
   raises as above, astype(float) raises ValueError on a string that is no
   number *)
ActivityRaises(rows) ==
    LET activity_data == ItemRows(rows, "activity")
    IN  /\ activity_data # <<>>
        /\ \/ StrRaises(rows)
           \/ \E i \in 1..Len(activity_data) : activity_data[i].value.kind = "bad"

(* create_visualizations(df, days): "no_data" (printed, returns None),
   "raised" (an exception leaves the function) or "saved" (image written) *)
create_visualizations(d) ==
    IF d.none \/ d.rows = <<>> THEN "no_data"
    ELSE IF ActivityRaises(d.rows) THEN "raised"
    ELSE "saved"

----------------------------------------------------------------------------
(* Classification *)

NoAnalysis == [none |-> TRUE]

Sentiment_mild_first(rise_ratio, limit_up_count) ==
    LET h == Pow10(RoundDigits)
    IN  IF GT(rise_ratio, MildRise * h) /\ GT(limit_up_count, MildLimitUp)
        THEN "mildly_bullish"
        ELSE IF GT(rise_ratio, StrongRise * h) /\ GT(limit_up_count, StrongLimitUp)
        THEN "strongly_bullish"
        ELSE IF LT(rise_ratio, WeakRise * h) /\ LT(limit_up_count, WeakLimitUp)
        THEN "cautiously_bearish"
        ELSE "neutral_choppy"

(* the if / elif chain of lines 175-182; rise_ratio in hundredths *)
Sentiment(rise_ratio, limit_up_count) ==
    LET h == Pow10(RoundDigits)
    IN  IF GT(rise_ratio, StrongRise * h) /\ GT(limit_up_count, StrongLimitUp)
        THEN "strongly_bullish"
        ELSE IF GT(rise_ratio, MildRise * h) /\ GT(limit_up_count, MildLimitUp)
        THEN "mildly_bullish"
        ELSE IF LT(rise_ratio, WeakRise * h) /\ LT(limit_up_count, WeakLimitUp)
        THEN "cautiously_bearish"
        ELSE "neutral_choppy"

(* latest_data[latest_data['item'] == item]['value'], as floats *)
ItemValues(latest_data, item) ==
    LET sel == ItemRows(latest_data, item)
    IN  [i \in 1..Len(sel) |-> astype_float(sel[i].value)]

(* the readings of the index missing from lines 155-158, 167 and 172 *)
Readings == {"first", "last"}

(* <series>.iloc[0] or <series>.iloc[-1] of a non-empty series *)
iloc(data, reading) == IF reading = "first" THEN data[1] ELSE data[Len(data)]

Totals_without_guard(latest_data, reading) ==
    LET present == SelectSeq(latest_data,
                             LAMBDA r : r.item \in {"rise", "fall", "flat", "suspension"})
        rise_data == ItemValues(latest_data, "rise")
    IN  IF present = <<>> \/ rise_data = <<>> THEN [total_stocks |-> F(0), rise_ratio |-> F(0)]
        ELSE LET total == F(Len(present))
             IN  [total_stocks |-> total, rise_ratio |-> F(RoundRatio(1, total.n))]

(* lines 154-162: total_stocks and rise_ratio *)
Totals(latest_data, reading) ==
    LET rise_data == ItemValues(latest_data, "rise")
        fall_data == ItemValues(latest_data, "fall")
        flat_data == ItemValues(latest_data, "flat")
        suspension_data == ItemValues(latest_data, "suspension")
    IN  IF rise_data # <<>> /\ fall_data # <<>> /\ flat_data # <<>> /\ suspension_data # <<>>
        THEN LET rise == iloc(rise_data, reading)
                 fall == iloc(fall_data, reading)
                 flat == iloc(flat_data, reading)
                 suspension == iloc(suspension_data, reading)
                 total == Add(Add(Add(rise, fall), flat), suspension)
             IN  [total_stocks |-> total,
                  rise_ratio |-> IF GT(total, 0) THEN F(RoundRatio(rise.n, total.n)) ELSE F(0)]
        ELSE [total_stocks |-> F(0), rise_ratio |-> F(0)]

(* lines 165-172: the selected value, with a default of 0 *)
ValueOr0(data, reading) == IF data # <<>> THEN iloc(data, reading) ELSE F(0)

(* analyze_market_sentiment(df); raised: the except clause of lines 184-188
   ran (it prints; the result is returned as it stands) *)
analyze_market_sentiment(d, reading) ==
    IF d.none \/ d.rows = <<>> THEN NoAnalysis
    ELSE LET maxdate == SeqMax([i \in 1..Len(d.rows) |-> d.rows[i].date])
             latest_data == SelectSeq(d.rows, LAMBDA r : r.date = maxdate)
             start == [none |-> FALSE, date |-> FormatDate(maxdate),
                       total_stocks |-> F(0), rise_ratio |-> F(0),
                       activity_level |-> F(0), limit_up_count |-> F(0),
                       sentiment |-> "neutral", raised |-> FALSE]
         IN  IF \E i \in 1..Len(latest_data) : astype_float_raises(latest_data[i].value)
             THEN [start EXCEPT !.raised = TRUE]
             ELSE LET t == Totals(latest_data, reading)
                      activity_level == ValueOr0(ItemValues(latest_data, "activity"), reading)
                      limit_up_count == ValueOr0(ItemValues(latest_data, "limit_up"), reading)
                  IN  [start EXCEPT !.total_stocks = t.total_stocks,
                                    !.rise_ratio = t.rise_ratio,
                                    !.activity_level = activity_level,
                                    !.limit_up_count = limit_up_count,
                                    !.sentiment = Sentiment(t.rise_ratio, limit_up_count)]

----------------------------------------------------------------------------
(* The pipeline: runs of main, the clock, and damage to a file from outside *)

MaxNow == (MaxDay + 1) * TicksPerDay - 1
FileNames == 0..MaxDay

R(item, value) == [item |-> item, value |-> value]

(* what ak.stock_market_activity_legu() may return *)
Batches ==
    { <<>>,
      <<R("activity", Pct(73)), R("rise", Num(70))>>,
      <<R("rise", Num(70)), R("fall", Num(30)), R("flat", Num(0)),
        R("suspension", Num(0)), R("limit_up", Num(80))>> }

CIdle == c_df = None /\ c_res = NoAnalysis /\ c_pc = "off"
WIdle == w_files = <<>> /\ w_now = 0 /\ w_days = 0 /\ w_res = None /\ w_pc = "off"
AIdle == a_A = <<>> /\ a_B = <<>> /\ a_pre = <<>> /\ a_seq = <<>> /\ a_one = <<>> /\ a_now = 0 /\ a_pc = "off"

Init ==
    /\ now = 0
    /\ files = [f \in FileNames |-> NoFile]
    /\ writes = 0
    /\ pc = "idle"
    /\ df = None
    /\ recent_df = None
    /\ analysis = NoAnalysis
    /\ out = <<>>
    /\ image = 0
    /\ runs = 0
    /\ prev = [files |-> [f \in FileNames |-> NoFile], image |-> 0]
    /\ CIdle /\ WIdle /\ AIdle

Others == UNCHANGED <<cvars, wvars, avars>>

(* fetch_market_activity_data(): the table, or None when the call raised *)
FetchResults == {None} \cup {Frame(b) : b \in Batches}

after_fetch_always_save(d) == "save"

(* line 198: if df is not None *)
after_fetch(d) == IF d.none THEN "done" ELSE "save"

(* main starts: lines 194-200, and 226-227 when the fetch failed *)
Fetch ==
    /\ pc \in {"idle", "done", "crashed"}
    /\ runs < MaxRuns
    /\ \E d \in FetchResults :
        /\ df' = d
        /\ pc' = after_fetch(d)
        /\ out' = IF d.none THEN <<"start", "fetch_error", "fetch_failed">>
                  ELSE <<"start", "fetch_ok", "fetched_table">>
    /\ runs' = runs + 1
    /\ prev' = [files |-> files, image |-> image]
    /\ recent_df' = None
    /\ analysis' = NoAnalysis
    /\ UNCHANGED <<now, files, writes, image>>
    /\ Others

(* line 203: csv_file = save_to_csv(df); main's df is stamped in place; an
   exception leaves main *)
Save ==
    /\ pc = "save"
    /\ \E n1, n2, n3 \in now..Min(now + 1, MaxNow) :
        /\ n1 <= n2 /\ n2 <= n3
        /\ LET r == save_to_csv(files, df.rows, NoName, n1, n2, n3, writes + 1)
           IN  /\ files' = r.fs
               /\ df' = Frame(r.df)
               /\ writes' = IF r.raised THEN writes ELSE writes + 1
               /\ pc' = IF r.raised THEN "crashed" ELSE "load"
               /\ out' = IF r.raised THEN Append(out, "traceback") ELSE Append(out, "saved")
        /\ now' = n3
    /\ UNCHANGED <<recent_df, analysis, image, runs, prev>>
    /\ Others

(* lines 207-209, 224-225; load_recent_data prints when reading fails (line 67) *)
Load ==
    /\ pc = "load"
    /\ LET r == load_recent_data(files, now, MainDays)
       IN  /\ recent_df' = r
           /\ pc' = IF r.none THEN "done" ELSE "viz"
           /\ out' = out \o (IF load_fails(files) THEN <<"load_error">> ELSE <<>>)
                         \o (IF r.none THEN <<"insufficient_history">> ELSE <<>>)
    /\ UNCHANGED <<now, files, writes, df, analysis, image, runs, prev>>
    /\ Others

(* lines 211-212; an exception leaves main *)
Visualize ==
    /\ pc = "viz"
    /\ LET o == create_visualizations(recent_df)
       IN  /\ pc' = IF o = "raised" THEN "crashed" ELSE "analyze"
           /\ image' = IF o = "saved" THEN image + 1 ELSE image
           /\ out' = CASE o = "raised" -> Append(out, "traceback")
                       [] o = "no_data" -> out \o <<"no_data_to_visualize", "chart_saved_to_None">>
                       [] OTHER -> Append(out, "chart_saved")
    /\ UNCHANGED <<now, files, writes, df, recent_df, analysis, runs, prev>>
    /\ Others

(* lines 215-223; the classifier prints the error and the traceback when
   its except clause runs (lines 185-188) *)
Analyze ==
    /\ pc = "analyze"
    /\ \E reading \in Readings :
        LET a == analyze_market_sentiment(recent_df, reading)
        IN  /\ analysis' = a
            /\ out' = IF a.none THEN out
                      ELSE out \o (IF a.raised THEN <<"analysis_error", "traceback">> ELSE <<>>)
                               \o <<"sentiment_report">>
    /\ pc' = "done"
    /\ UNCHANGED <<now, files, writes, df, recent_df, image, runs, prev>>
    /\ Others

(* time passes *)
Tick ==
    /\ now < MaxNow
    /\ now' = now + 1
    /\ UNCHANGED <<files, writes, pc, df, recent_df, analysis, out, image, runs, prev>>
    /\ Others

(* a file of the directory is damaged from outside (truncated, garbled) *)
Corrupt ==
    /\ \E f \in FileNames :
        /\ files[f].exists /\ files[f].readable
        /\ files' = [files EXCEPT ![f].readable = FALSE, ![f].mtime = writes + 1]
    /\ writes' = writes + 1
    /\ UNCHANGED <<now, pc, df, recent_df, analysis, out, image, runs, prev>>
    /\ Others

Next == Fetch \/ Save \/ Load \/ Visualize \/ Analyze \/ Tick \/ Corrupt

Spec == Init /\ [][Next]_vars

----------------------------------------------------------------------------
(* Claims about the pipeline, checked under Spec *)

SaveStep == pc = "save" /\ pc' # "save"

(* C4 (as stated): when the target exists but cannot be read, save_to_csv
   reports the failure and still writes the new rows as a fresh file; the
   merge failure neither aborts the write nor raises to the caller. *)
C4_MergeFailureStillWrites ==
    [][SaveStep =>
        /\ pc' = "load"
        /\ \A f \in FileNames :
            (files[f].exists /\ ~files[f].readable /\ f = FileName(now)) =>
                /\ files'[f].readable
                /\ Len(files'[f].rows) = Len(df.rows)]_vars

(* C5 (as stated): no exception reaches main uncaught; every run of main
   ends by itself, whatever fails in fetch, append, load, rendering or
   classification. *)
C5_NoUncaughtException == pc # "crashed"

(* C7 (as stated): a window selection without data gives the explicit
   "no data" value, never an empty table, and main then reports the missing
   history and enters neither visualization nor classification. *)
C7_EmptyWindowIsNoData ==
    /\ (pc \in {"viz", "analyze"} => recent_df.rows # <<>>)
    /\ ((pc = "done" /\ ~df.none /\ recent_df.rows = <<>>) =>
            /\ recent_df.none
            /\ out[Len(out)] = "insufficient_history")

(* C8: when the upstream fetch fails the run reports it and halts: every
   artifact exists and holds the rows it did when the run started, no image
   is written and no classification is computed. *)
C8_FetchFailureWritesNothing ==
    (runs > 0 /\ df.none) =>
        /\ pc = "done"
        /\ \A f \in FileNames :
            /\ files[f].exists = prev.files[f].exists
            /\ files[f].rows = prev.files[f].rows
        /\ image = prev.image
        /\ analysis = NoAnalysis
        /\ recent_df = None
        /\ out[Len(out)] = "fetch_failed"

C8_Witness ==
    /\ pc = "done" /\ df.none
    /\ runs = 2
    /\ \E f \in FileNames : files[f].exists /\ files[f].rows # <<>>

(* C9: the store is append-only: a call of save_to_csv leaves every existing
   artifact in place with its former rows as a prefix of its rows, in content
   and order, and changes no artifact but one, its target. *)
C9_AppendOnly ==
    [][SaveStep =>
        /\ \A f \in FileNames :
            files[f].exists =>
                files'[f].exists /\ IsPrefix(files[f].rows, files'[f].rows)
        /\ \E t \in {FileName(now), FileName(now')} :
            \A f \in FileNames \ {t} : files'[f] = files[f]]_vars

C9_Witness ==
    \E f \in FileNames :
        /\ files[f].exists
        /\ Len(files[f].rows) > 2
        /\ files[f].rows[1].timestamp # files[f].rows[Len(files[f].rows)].timestamp

(* C10 (as stated): an append goes to the artifact of its calendar day and
   every row it writes carries, as its date, the day that names the artifact
   holding it; so rows of one date are never spread over two artifacts. *)
C10_RowsCarryFileDay ==
    \A f \in FileNames :
        \A i \in 1..Len(files[f].rows) : files[f].rows[i].date = f

----------------------------------------------------------------------------
(* The classifier on its own: analyze_market_sentiment applied to a window *)

PIdle ==
    /\ now = 0 /\ files = <<>> /\ writes = 0 /\ pc = "off" /\ df = None
    /\ recent_df = None /\ analysis = NoAnalysis /\ out = <<>> /\ image = 0
    /\ runs = 0 /\ prev = <<>>

Absent == [kind |-> "absent", n |-> 0]

RefDay == MainDays + 40

(* a row of a window: the date is a parsed datetime *)
WRow(item, value, day) ==
    [item |-> item, value |-> value, timestamp |-> ToDatetime(day), date |-> ToDatetime(day)]

Opt(item, value, day) == IF value = Absent THEN <<>> ELSE <<WRow(item, value, day)>>

(* an earlier day of the window, with all items *)
OlderDay ==
    <<WRow("rise", Num(100), RefDay - 1), WRow("fall", Num(0), RefDay - 1),
      WRow("flat", Num(0), RefDay - 1), WRow("suspension", Num(0), RefDay - 1),
      WRow("activity", Num(99), RefDay - 1), WRow("limit_up", Num(80), RefDay - 1)>>

(* 23 of 160 is 14.375 and 49 of 160 is 30.625: ties of round(x, 2) *)
RiseValues == {Absent, Num(23), Num(30), Num(45), Num(49), Num(55), Num(70)}
FallValues == {Absent, Num(30), Num(45), Num(55), Num(111), Num(137)}
FlatValues == {Absent, Num(0)}
SuspensionValues == {Absent, Num(0), Empty}
ActivityValues == {Absent, Pct(73), Bad}
LimitUpValues ==
    {Absent, Num(10), Num(20), Num(30), Num(31), Num(50), Num(51), Num(80), Empty}

ClassifierWindow(older, rise, fall, flat, suspension, activity, limit_up, again) ==
    (IF older THEN OlderDay ELSE <<>>)
    \o Opt("activity", activity, RefDay) \o Opt("rise", rise, RefDay)
    \o Opt("fall", fall, RefDay) \o Opt("flat", flat, RefDay)
    \o Opt("suspension", suspension, RefDay) \o Opt("limit_up", limit_up, RefDay)
    \o (IF again THEN <<WRow("limit_up", Num(80), RefDay), WRow("rise", Num(100), RefDay)>>
        ELSE <<>>)

InitClassify ==
    /\ \E older, again \in BOOLEAN :
       \E rise \in RiseValues, fall \in FallValues, flat \in FlatValues :
       \E suspension \in SuspensionValues, activity \in ActivityValues :
       \E limit_up \in LimitUpValues :
          c_df = Frame(ClassifierWindow(older, rise, fall, flat, suspension,
                                        activity, limit_up, again))
    /\ c_res = NoAnalysis
    /\ c_pc = "ready"
    /\ PIdle /\ WIdle /\ AIdle

Classify ==
    /\ c_pc = "ready"
    /\ \E reading \in Readings : c_res' = analyze_market_sentiment(c_df, reading)
    /\ c_pc' = "done"
    /\ UNCHANGED <<c_df, pvars, wvars, avars>>

NextClassify == Classify

SpecClassify == InitClassify /\ [][NextClassify]_vars

----------------------------------------------------------------------------
(* The window selection on its own: load_recent_data applied to a directory *)

WindowDates ==
    {RefDay - 100, RefDay - MainDays - 1, RefDay - MainDays, RefDay - 1, RefDay, RefDay + 1}

RECURSIVE Ascending(_)
Ascending(S) ==
    IF S = {} THEN <<>>
    ELSE LET m == CHOOSE x \in S : \A y \in S : x <= y
         IN  <<m>> \o Ascending(S \ {m})

Reverse(q) == [i \in 1..Len(q) |-> q[Len(q) + 1 - i]]

RECURSIVE SeqsUpTo(_, _)
SeqsUpTo(S, n) ==
    IF n = 0 THEN {<<>>}
    ELSE LET shorter == SeqsUpTo(S, n - 1)
         IN  shorter \cup {Append(q, x) : q \in shorter, x \in S}

(* a stored row of the given day *)
FRow(item, value, day) ==
    [item |-> item, value |-> value, timestamp |-> ToDatetime(day), date |-> day]

History(days) == [i \in 1..Len(days) |-> FRow("rise", Pct(i), days[i])]

StoredFile(rows, readable, m) ==
    [exists |-> TRUE, readable |-> readable, rows |-> rows, mtime |-> m]

InitWindow ==
    /\ \E held \in SUBSET WindowDates, backwards \in BOOLEAN :
       \E state \in {"rows", "unreadable", "missing"}, other \in BOOLEAN :
          w_files =
            [f \in 0..1 |->
                IF f = 0
                THEN IF other THEN StoredFile(<<FRow("fall", Num(7), RefDay)>>, TRUE, 1)
                     ELSE NoFile
                ELSE IF state = "missing" THEN NoFile
                     ELSE StoredFile(History(IF backwards THEN Reverse(Ascending(held))
                                              ELSE Ascending(held)),
                                      state = "rows", 2)]
    /\ \E tod \in 0..(TicksPerDay - 1) : w_now = ToDatetime(RefDay) + tod
    /\ w_days \in {1, MainDays}
    /\ w_res = None
    /\ w_pc = "ready"
    /\ PIdle /\ CIdle /\ AIdle

Select ==
    /\ w_pc = "ready"
    /\ w_res' = load_recent_data(w_files, w_now, w_days)
    /\ w_pc' = "done"
    /\ UNCHANGED <<w_files, w_now, w_days, pvars, cvars, avars>>

NextWindow == Select

SpecWindow == InitWindow /\ [][NextWindow]_vars

----------------------------------------------------------------------------
(* Appending on its own: one directory gets A and then B, another gets A+B *)

Target == 0

AppendRows == {R("rise", Num(1)), R("activity", Pct(2))}

InitAppend ==
    /\ a_A \in SeqsUpTo(AppendRows, MaxBatch)
    /\ a_B \in SeqsUpTo(AppendRows, MaxBatch)
    /\ a_pre \in {<<>>, <<FRow("fall", Num(7), 0)>>}
    /\ a_seq = [f \in {Target} |->
                    IF a_pre = <<>> THEN NoFile ELSE StoredFile(a_pre, TRUE, 0)]
    /\ a_one = a_seq
    /\ a_now = 0
    /\ a_pc = [seq |-> 0, one |-> 0]
    /\ PIdle /\ CIdle /\ WIdle

(* one call save_to_csv(batch, Target) on the directory fs *)
Appended(fs, batch, n2, n3) == save_to_csv(fs, batch, Target, n2, n2, n3, 1).fs

AppendA ==
    /\ a_pc.seq = 0
    /\ \E n2, n3 \in a_now..Min(a_now + 1, MaxNow) :
        /\ n2 <= n3
        /\ a_seq' = Appended(a_seq, a_A, n2, n3)
        /\ a_now' = n3
    /\ a_pc' = [a_pc EXCEPT !.seq = 1]
    /\ UNCHANGED <<a_A, a_B, a_pre, a_one, pvars, cvars, wvars>>

AppendB ==
    /\ a_pc.seq = 1
    /\ \E n2, n3 \in a_now..Min(a_now + 1, MaxNow) :
        /\ n2 <= n3
        /\ a_seq' = Appended(a_seq, a_B, n2, n3)
        /\ a_now' = n3
    /\ a_pc' = [a_pc EXCEPT !.seq = 2]
    /\ UNCHANGED <<a_A, a_B, a_pre, a_one, pvars, cvars, wvars>>

AppendAB ==
    /\ a_pc.one = 0
    /\ \E n2, n3 \in a_now..Min(a_now + 1, MaxNow) :
        /\ n2 <= n3
        /\ a_one' = Appended(a_one, a_A \o a_B, n2, n3)
        /\ a_now' = n3
    /\ a_pc' = [a_pc EXCEPT !.one = 1]
    /\ UNCHANGED <<a_A, a_B, a_pre, a_seq, pvars, cvars, wvars>>

ATick ==
    /\ a_now < MaxNow
    /\ a_now' = a_now + 1
    /\ UNCHANGED <<a_A, a_B, a_pre, a_seq, a_one, a_pc, pvars, cvars, wvars>>

NextAppend == AppendA \/ AppendB \/ AppendAB \/ ATick

SpecAppend == InitAppend /\ [][NextAppend]_vars

----------------------------------------------------------------------------
(* Claims about the classifier, checked under SpecClassify *)

FourLabels == {"strongly_bullish", "mildly_bullish", "cautiously_bearish", "neutral_choppy"}

Classified == c_pc = "done" /\ ~c_res.none /\ ~c_res.raised

(* C1: the label is decided by first match in a fixed order: strongly
   bullish iff rise_ratio > 60 and limit_up_count > 50; otherwise mildly
   bullish iff rise_ratio > 50 and limit_up_count > 30; otherwise cautiously
   bearish iff rise_ratio < 40 and limit_up_count < 20; otherwise neutral /
   choppy.  rise_ratio = 45 with limit_up = 10 is neutral / choppy, and a
   completed rule chain gives one of the four labels. *)
C1_LabelByFirstMatch ==
    Classified =>
        LET r == c_res.rise_ratio
            l == c_res.limit_up_count
            strong == (~r.nan /\ r.n > 6000) /\ (~l.nan /\ l.n > 50)
            mild == (~r.nan /\ r.n > 5000) /\ (~l.nan /\ l.n > 30)
            weak == (~r.nan /\ r.n < 4000) /\ (~l.nan /\ l.n < 20)
        IN  /\ c_res.sentiment \in FourLabels
            /\ (c_res.sentiment = "strongly_bullish") <=> strong
            /\ (c_res.sentiment = "mildly_bullish") <=> (~strong /\ mild)
            /\ (c_res.sentiment = "cautiously_bearish") <=> (~strong /\ ~mild /\ weak)
            /\ (c_res.sentiment = "neutral_choppy") <=> (~strong /\ ~mild /\ ~weak)
            /\ (r = F(4500) /\ l = F(10)) => c_res.sentiment = "neutral_choppy"

C1_Witness ==
    /\ Classified
    /\ c_res.rise_ratio = F(4500)
    /\ c_res.limit_up_count = F(10)
    /\ c_res.sentiment = "neutral_choppy"

(* the rows of the latest day of the window handed to the classifier *)
C6_Top == SeqMax([i \in 1..Len(c_df.rows) |-> c_df.rows[i].date])

C6_Latest == LET top == C6_Top IN SelectSeq(c_df.rows, LAMBDA r : r.date = top)

C6_Has(item) == \E i \in 1..Len(C6_Latest) : C6_Latest[i].item = item

(* the value of the first or the last row of the latest day with this item *)
C6_Pick(item, reading) ==
    LET with == SelectSeq(C6_Latest, LAMBDA r : r.item = item)
    IN  IF reading = "first" THEN with[1].value ELSE with[Len(with)].value

(* the float the classifier reports for this item under this reading *)
C6_Value(item, reading) ==
    IF ~C6_Has(item) THEN F(0)
    ELSE IF C6_Pick(item, reading).kind = "nan" THEN NaN
    ELSE F(C6_Pick(item, reading).n)

C6_LacksOneOfFour ==
    ~(C6_Has("rise") /\ C6_Has("fall") /\ C6_Has("flat") /\ C6_Has("suspension"))

(* C6: on a non-empty window the classifier always returns a result.  When
   the latest day lacks one of rise / fall / flat / suspension and nothing
   raises, total_stocks and rise_ratio are 0, activity and limit-up are still
   taken from the latest day (0 when absent; from its first row of the item
   or from its last, both from the same end) and the label is the rule
   chain's for those values.  When the conversion raises, the exception is
   caught and the result keeps its defaults and the default label. *)
C6_NeverRaisesNorShortCircuits ==
    (c_pc = "done" /\ c_df.rows # <<>>) =>
        /\ ~c_res.none
        /\ c_res.date * TicksPerDay = C6_Top
        /\ (~c_res.raised /\ C6_LacksOneOfFour) =>
            /\ c_res.total_stocks = F(0)
            /\ c_res.rise_ratio = F(0)
            /\ \E reading \in {"first", "last"} :
                 /\ c_res.activity_level = C6_Value("activity", reading)
                 /\ c_res.limit_up_count = C6_Value("limit_up", reading)
            /\ c_res.sentiment =
                 IF ~c_res.limit_up_count.nan /\ c_res.limit_up_count.n < 20
                 THEN "cautiously_bearish" ELSE "neutral_choppy"
        /\ c_res.raised <=> (\E i \in 1..Len(C6_Latest) : C6_Latest[i].value.kind = "bad")
        /\ c_res.raised =>
            /\ c_res.sentiment = "neutral"
            /\ c_res.total_stocks = F(0) /\ c_res.rise_ratio = F(0)
            /\ c_res.activity_level = F(0) /\ c_res.limit_up_count = F(0)

C6_Witness ==
    /\ c_pc = "done"
    /\ c_df.rows # <<>>
    /\ ~c_res.none
    /\ ~c_res.raised
    /\ C6_Has("rise") /\ ~C6_Has("fall")
    /\ Len(C6_Latest) < Len(c_df.rows)
    /\ c_res.activity_level = F(73)
    /\ c_res.limit_up_count = F(30)
    /\ c_res.sentiment = "neutral_choppy"

----------------------------------------------------------------------------
(* Claims about the window selection, checked under SpecWindow *)

(* the stored rows load_recent_data reads, and the numbers of its rows *)
C3_Stored == w_files[latest_file(w_files)].rows
C3_Days(rows) == [i \in 1..Len(rows) |-> rows[i].date]
C3_Loaded == w_pc = "done" /\ ~w_res.none
C3_Today == w_now \div TicksPerDay
C3_Example ==
    /\ C3_Days(C3_Stored) =
          <<RefDay - 100, RefDay - 61, RefDay - 60, RefDay - 1, RefDay>>
    /\ w_days = 60

(* C3 (as stated): the selected rows are exactly those dated on or after the
   day now - window_days; with dates [d-100, d-61, d-60, d-1, d], 60 days and
   now = d the three rows d-60, d-1, d are selected. *)
C3_InclusiveByDay ==
    C3_Loaded =>
        /\ C3_Days(w_res.rows) =
             [i \in 1..Len(w_res.rows) |->
                ToDatetime(SelectSeq(C3_Stored,
                                     LAMBDA r : r.date >= C3_Today - w_days)[i].date)]
        /\ C3_Example => Len(w_res.rows) = 3

(* C3 (amended): the selected rows are exactly those whose date, taken at
   midnight, is at or after the instant now - window_days, in stored order and
   with no upper bound; the row dated d-60 is selected only when now is
   exactly midnight of d.  For the example, 3 rows at midnight of d and the 2
   rows d-1, d at any later time of day d. *)
C3_InclusiveByInstant ==
    C3_Loaded =>
        LET kept == SelectSeq(C3_Stored,
                              LAMBDA r : r.date * TicksPerDay >= w_now - w_days * TicksPerDay)
        IN  /\ Len(w_res.rows) = Len(kept)
            /\ \A i \in 1..Len(kept) :
                /\ w_res.rows[i].date = kept[i].date * TicksPerDay
                /\ w_res.rows[i].value.n = kept[i].value.n
            /\ \A i \in 1..Len(C3_Stored) :
                C3_Stored[i].date > C3_Today =>
                    \E j \in 1..Len(w_res.rows) : w_res.rows[j].value.n = C3_Stored[i].value.n
            /\ C3_Example =>
                IF w_now = C3_Today * TicksPerDay
                THEN C3_Days(w_res.rows) =
                        <<ToDatetime(RefDay - 60), ToDatetime(RefDay - 1), ToDatetime(RefDay)>>
                ELSE C3_Days(w_res.rows) = <<ToDatetime(RefDay - 1), ToDatetime(RefDay)>>

C3_Witness ==
    /\ C3_Loaded
    /\ C3_Example
    /\ w_now > C3_Today * TicksPerDay
    /\ Len(w_res.rows) = 2

----------------------------------------------------------------------------
(* Claims about appending, checked under SpecAppend *)

C2_Done == a_pc = [seq |-> 2, one |-> 1]

(* C2 (as stated): appending A and then B gives the same rows in the same
   order as appending A+B in one call. *)
C2_SameRows == C2_Done => a_seq[Target].rows = a_one[Target].rows

(* C2 (amended): appending A and then B gives, row by row and in the same
   order (the existing rows, then A, then B), the same item and value as
   appending A+B in one call, and the existing rows are unchanged in both;
   the timestamp and date of a new row are those of the call that appended
   it, so the two histories agree in them only when the calls read the same
   clock. *)
C2_SameItemsAndValues ==
    C2_Done =>
        LET s == a_seq[Target].rows
            o == a_one[Target].rows
            new == a_A \o a_B
            p == Len(a_pre)
        IN  /\ Len(s) = p + Len(new) /\ Len(o) = p + Len(new)
            /\ SubSeq(s, 1, p) = a_pre /\ SubSeq(o, 1, p) = a_pre
            /\ \A i \in 1..Len(new) :
                /\ s[p + i].item = new[i].item /\ s[p + i].value = new[i].value
                /\ o[p + i].item = new[i].item /\ o[p + i].value = new[i].value
            /\ \A i, j \in 1..Len(a_A) :
                s[p + i].timestamp = s[p + j].timestamp /\ s[p + i].date = s[p + j].date
            /\ \A i, j \in (Len(a_A) + 1)..Len(new) :
                s[p + i].timestamp = s[p + j].timestamp /\ s[p + i].date = s[p + j].date
            /\ \A i, j \in 1..Len(new) :
                o[p + i].timestamp = o[p + j].timestamp /\ o[p + i].date = o[p + j].date
            /\ (\A i \in 1..Len(new) :
                    s[p + i].timestamp = o[p + i].timestamp /\ s[p + i].date = o[p + i].date)
                => s = o

C2_Witness ==
    /\ C2_Done
    /\ a_pre # <<>> /\ Len(a_A) = 2 /\ Len(a_B) = 2 /\ a_A # a_B
    /\ a_seq[Target].rows # a_one[Target].rows
    /\ a_seq[Target].rows[2].timestamp # a_seq[Target].rows[5].timestamp

====
